---- MODULE Spec2Model ----
(***************************************************************************)
(* Model of scripts/voice.py: the Edge TTS notification tool.              *)
(*                                                                         *)
(* Every command-line invocation is one operating-system process.  The     *)
(* processes share two things only, both on the file system: the session   *)
(* file (agent -> voice assignments) and the speech lock file.  Each       *)
(* process runs main() once: --reset-session, "text --voice V" or          *)
(* "text --agent A".                                                       *)
(*                                                                         *)
(* Steps are split exactly where another process can observe or change     *)
(* shared state: the read of the session file, the two halves of           *)
(* Path.write_text (open with truncation, then write), exists()/unlink()   *)
(* of the reset, the acquisition and release of the FileLock, the start    *)
(* and end of the ffplay subprocess, the creation and removal of the temp  *)
(* file.  File-system semantics are POSIX (tempfile.gettempdir()).         *)
(***************************************************************************)
EXTENDS Integers, Sequences, FiniteSets, TLC

\* ------------------------------------------------------------------ bounds
\* Number of concurrent invocations of the tool.
NumProcs == 2
\* Number of entries of VOICE_POOL kept by the model (the source lists 14).
NumVoices == 2

Procs == 1..NumProcs

\* VOICE_POOL: the voice ids eligible for random assignment.
VOICE_POOL == 1..NumVoices

\* The agent ids the invocations may name: one more than there are voices,
\* so that the pool can be exhausted.
Agents == 1..(NumVoices + 1)

\* DEFAULT_VOICE = "en-US-AriaNeural", the first entry of the pool.
DEFAULT_VOICE == 1
\* "no voice determined yet": the variable voice of main() before its assignment.
NoVoice == 0
\* A voice id that is not in the pool (only an explicit --voice can name it).
CustomVoice == NumVoices + 1

VARIABLES
    file,       \* the session file SESSION_FILE
    linked,     \* linked[p]: the file p opened for writing is still SESSION_FILE
    holders,    \* processes holding the FileLock on SPEECH_LOCK_FILE
    cmd,        \* cmd[p]: which branch of main() the invocation takes
    agent_id,   \* agent_id[p]: the agent id of an "agent" invocation
    pc,         \* pc[p]: position of process p
    session,    \* session[p]: the local dict of get_voice_for_agent
    voice,      \* voice[p]: the voice main() determined
    temp,       \* temp[p]: the temp audio file created by p's speak()
    err,        \* err[p]: the exception that ended p, or "none"
    plays       \* plays[p]: number of calls of subprocess.run(ffplay) by p

vars == <<file, linked, holders, cmd, agent_id, pc, session, voice, temp, err, plays>>

\* ------------------------------------------------------------ session file
Range(s) == {s[i] : i \in 1..Len(s)}

EmptyMap == [a \in {} |-> NoVoice]

\* A file content: kind, and for kind "session" the two fields.
Content(k, ag, used) == [kind |-> k, agents |-> ag, used_voices |-> used]

\* No directory entry.
Absent == Content("absent", EmptyMap, <<>>)
\* A file of length 0: what open(..., "w") leaves before the write.
Empty == Content("empty", EmptyMap, <<>>)
\* Text that is not JSON (a longer file partly overwritten by a shorter one).
Garbage == Content("garbage", EmptyMap, <<>>)
\* Bytes that do not decode in the locale encoding.
Undecodable == Content("undecodable", EmptyMap, <<>>)
\* A file that cannot be opened for reading (mode 0200), but can be written.
Unreadable == Content("unreadable", EmptyMap, <<>>)
\* Valid JSON without the agents / used_voices fields, e.g. {} .
NoFields == Content("nofields", EmptyMap, <<>>)

\* {"agents": {}, "used_voices": []}
FreshSession == Content("session", EmptyMap, <<>>)

\* The local variable session before load_session and after return.
NoSession == Content("none", EmptyMap, <<>>)

\* load_session(): [raised, session].  exists() is false -> fresh;
\* read_text() raises OSError -> fresh; read_text() raises
\* UnicodeDecodeError (a ValueError, not a JSONDecodeError) -> propagates;
\* json.loads raises JSONDecodeError -> fresh; else the parsed value.
load_session(f) ==
    CASE f.kind = "absent"      -> [raised |-> FALSE, session |-> FreshSession]
      [] f.kind = "unreadable"  -> [raised |-> FALSE, session |-> FreshSession]
      [] f.kind = "undecodable" -> [raised |-> TRUE,  session |-> NoSession]
      [] f.kind = "empty"       -> [raised |-> FALSE, session |-> FreshSession]
      [] f.kind = "garbage"     -> [raised |-> FALSE, session |-> FreshSession]
      [] OTHER                  -> [raised |-> FALSE, session |-> f]

\* Available with the exclusion of the used voices forgotten.
AvailableAny(s) == VOICE_POOL

\* Available without the reuse of the pool once it is exhausted.
AvailableNoReuse(s) == {v \in VOICE_POOL : v \notin Range(s.used_voices)}

\* available = pool voices not in used_voices; the whole pool if none is left.
Available(s) ==
    LET unused == {v \in VOICE_POOL : v \notin Range(s.used_voices)}
    IN  IF unused = {} THEN VOICE_POOL ELSE unused

\* Assign with the append made only for a voice not yet in used_voices.
AssignOnce(s, a, v) ==
    [s EXCEPT !.agents = (a :> v) @@ s.agents,
              !.used_voices = IF v \in Range(s.used_voices)
                              THEN s.used_voices
                              ELSE Append(s.used_voices, v)]

\* session["agents"][agent_id] = voice; session["used_voices"].append(voice)
Assign(s, a, v) ==
    [s EXCEPT !.agents = (a :> v) @@ s.agents,
              !.used_voices = Append(s.used_voices, v)]

\* ------------------------------------------------------------------- Init
\* The session file left by k earlier invocations, run one after the other
\* for the agents 1..k, whose random choices fell on the voices 1..k.
Earlier(k) ==
    IF k = 0 THEN Absent
    ELSE Content("session", [a \in 1..k |-> a], [i \in 1..k |-> i])

Init ==
    /\ file \in {Earlier(k) : k \in 0..NumVoices}
    /\ linked = [p \in Procs |-> FALSE]
    /\ holders = {}
    /\ cmd = [p \in Procs |-> "none"]
    /\ agent_id = [p \in Procs |-> 0]
    /\ pc = [p \in Procs |-> "idle"]
    /\ session = [p \in Procs |-> NoSession]
    /\ voice = [p \in Procs |-> NoVoice]
    /\ temp = [p \in Procs |-> "none"]
    /\ err = [p \in Procs |-> "none"]
    /\ plays = [p \in Procs |-> 0]

\* ------------------------------------------------------------------ main()
\* main(): args.reset_session
StartReset(p) ==
    /\ pc[p] = "idle"
    /\ cmd' = [cmd EXCEPT ![p] = "reset"]
    /\ pc' = [pc EXCEPT ![p] = "reset"]
    /\ UNCHANGED <<file, linked, holders, agent_id, session, voice, temp, err, plays>>

\* StartVoice with the precedence wrong: the voice is noted, but the agent
\* branch is taken all the same (for the first agent id).
StartVoiceResolves(p, v) ==
    /\ pc[p] = "idle"
    /\ cmd' = [cmd EXCEPT ![p] = "voice"]
    /\ voice' = [voice EXCEPT ![p] = v]
    /\ agent_id' = [agent_id EXCEPT ![p] = 1]
    /\ pc' = [pc EXCEPT ![p] = "resolve"]
    /\ UNCHANGED <<file, linked, holders, session, temp, err, plays>>

\* StartVoice with the explicit voice noted in the session's used_voices.
StartVoiceRecorded(p, v) ==
    /\ pc[p] = "idle"
    /\ cmd' = [cmd EXCEPT ![p] = "voice"]
    /\ voice' = [voice EXCEPT ![p] = v]
    /\ pc' = [pc EXCEPT ![p] = "speak"]
    /\ file' = Content("session", file.agents, Append(file.used_voices, v))
    /\ UNCHANGED <<linked, holders, agent_id, session, temp, err, plays>>

\* main(): args.text with args.voice: voice = args.voice, then speak()
StartVoice(p, v) ==
    /\ pc[p] = "idle"
    /\ cmd' = [cmd EXCEPT ![p] = "voice"]
    /\ voice' = [voice EXCEPT ![p] = v]
    /\ pc' = [pc EXCEPT ![p] = "speak"]
    /\ UNCHANGED <<file, linked, holders, agent_id, session, temp, err, plays>>

\* main(): args.text without args.voice: get_voice_for_agent(agent_id)
StartAgent(p, a) ==
    /\ pc[p] = "idle"
    /\ cmd' = [cmd EXCEPT ![p] = "agent"]
    /\ agent_id' = [agent_id EXCEPT ![p] = a]
    /\ pc' = [pc EXCEPT ![p] = "resolve"]
    /\ UNCHANGED <<file, linked, holders, session, voice, temp, err, plays>>

\* An uncaught exception ends the process (non-zero exit).
Raise(p, e) ==
    /\ pc' = [pc EXCEPT ![p] = "failed"]
    /\ err' = [err EXCEPT ![p] = e]

\* get_voice_for_agent saving the session also when the agent is known.
get_voice_for_agent_save_always(p) ==
    /\ pc[p] = "resolve"
    /\ LET r == load_session(file)
           s == r.session
           a == agent_id[p]
       IN  IF r.raised
           THEN Raise(p, "UnicodeDecodeError") /\ UNCHANGED <<session, voice>>
           ELSE IF s.kind # "session"
           THEN Raise(p, "KeyError") /\ UNCHANGED <<session, voice>>
           ELSE IF a \in DOMAIN s.agents
           THEN /\ voice' = [voice EXCEPT ![p] = s.agents[a]]
                /\ session' = [session EXCEPT ![p] = s]
                /\ pc' = [pc EXCEPT ![p] = "save_open"]
                /\ UNCHANGED err
           ELSE IF Available(s) = {}
           THEN Raise(p, "IndexError") /\ UNCHANGED <<session, voice>>
           ELSE \E v \in Available(s) :
                /\ voice' = [voice EXCEPT ![p] = v]
                /\ session' = [session EXCEPT ![p] = Assign(s, a, v)]
                /\ pc' = [pc EXCEPT ![p] = "save_open"]
                /\ UNCHANGED err
    /\ UNCHANGED <<file, linked, holders, cmd, agent_id, temp, plays>>

\* ------------------------------------------------------ get_voice_for_agent
\* Lines 76-92: load the session, return the agent's voice if it has one,
\* else choose among the available voices and record the choice in the local
\* dict.  The read is one step: exists() followed by read_text() gives the
\* content at the read, or the fresh state when the file vanished in between,
\* which is what a read of the absent file gives.
get_voice_for_agent(p) ==
    /\ pc[p] = "resolve"
    /\ LET r == load_session(file)
           s == r.session
           a == agent_id[p]
       IN  IF r.raised
           THEN Raise(p, "UnicodeDecodeError") /\ UNCHANGED <<session, voice>>
           ELSE IF s.kind # "session"
           THEN Raise(p, "KeyError") /\ UNCHANGED <<session, voice>>
           ELSE IF a \in DOMAIN s.agents
           THEN /\ voice' = [voice EXCEPT ![p] = s.agents[a]]
                /\ pc' = [pc EXCEPT ![p] = "speak"]
                /\ UNCHANGED <<session, err>>
           ELSE IF Available(s) = {}
           THEN Raise(p, "IndexError") /\ UNCHANGED <<session, voice>>
           ELSE \E v \in Available(s) :
                /\ voice' = [voice EXCEPT ![p] = v]
                /\ session' = [session EXCEPT ![p] = Assign(s, a, v)]
                /\ pc' = [pc EXCEPT ![p] = "save_open"]
                /\ UNCHANGED err
    /\ UNCHANGED <<file, linked, holders, cmd, agent_id, temp, plays>>

\* What open(SESSION_FILE, "w") leaves: a file of length 0.  The mode of an
\* existing file is kept, so a file without read permission stays unreadable.
Truncated(f) == IF f.kind = "unreadable" THEN Unreadable ELSE Empty

\* save_session, first half: write_text opens the file, truncating it.
SaveOpen(p) ==
    /\ pc[p] = "save_open"
    /\ file' = Truncated(file)
    /\ linked' = [linked EXCEPT ![p] = TRUE]
    /\ pc' = [pc EXCEPT ![p] = "save_write"]
    /\ UNCHANGED <<holders, cmd, agent_id, session, voice, temp, err, plays>>

\* Number of occurrences of v in the sequence q.
Count(q, v) == Cardinality({i \in 1..Len(q) : q[i] = v})

\* The JSON text of s holds every entry of the text of f, so is as long.
Extends(s, f) ==
    /\ \A a \in DOMAIN f.agents : a \in DOMAIN s.agents /\ s.agents[a] = f.agents[a]
    /\ \A v \in Range(f.used_voices) : Count(f.used_voices, v) <= Count(s.used_voices, v)

\* The contents the file may hold after the text of s is written at offset 0
\* of a file holding f: s when the file was empty or not longer than the
\* text; else s followed by the rest of f, which is not JSON.  Where the
\* entries do not decide it, the lengths depend on the agent ids and voice
\* names, which the model does not keep: both outcomes are possible.
Written(f, s) ==
    CASE f.kind = "unreadable" -> {Unreadable}
      [] f.kind = "empty"      -> {s}
      [] f.kind = "session" /\ Extends(s, f) -> {s}
      [] f.kind = "session" /\ Extends(f, s) -> {Garbage}
      [] OTHER                 -> {s, Garbage}

\* save_session, second half: the text is written and the file closed.  A
\* file unlinked since it was opened receives the text and is never seen.
SaveWrite(p) ==
    /\ pc[p] = "save_write"
    /\ IF linked[p]
       THEN file' \in Written(file, session[p])
       ELSE file' = file
    /\ linked' = [linked EXCEPT ![p] = FALSE]
    /\ session' = [session EXCEPT ![p] = NoSession]
    /\ pc' = [pc EXCEPT ![p] = "speak"]
    /\ UNCHANGED <<holders, cmd, agent_id, voice, temp, err, plays>>

\* ------------------------------------------------------------ reset_session
\* if SESSION_FILE.exists():
ResetExists(p) ==
    /\ pc[p] = "reset"
    /\ pc' = [pc EXCEPT ![p] = IF file.kind = "absent" THEN "done" ELSE "unlink"]
    /\ UNCHANGED <<file, linked, holders, cmd, agent_id, session, voice, temp, err, plays>>

\* SESSION_FILE.unlink(): FileNotFoundError when another reset came first.
ResetUnlink(p) ==
    /\ pc[p] = "unlink"
    /\ IF file.kind = "absent"
       THEN /\ Raise(p, "FileNotFoundError")
            /\ UNCHANGED <<file, linked>>
       ELSE /\ file' = Absent
            /\ linked' = [q \in Procs |-> FALSE]
            /\ pc' = [pc EXCEPT ![p] = "done"]
            /\ UNCHANGED err
    /\ UNCHANGED <<holders, cmd, agent_id, session, voice, temp, plays>>

\* -------------------------------------------------------------------- speak
\* CreateTemp with the speech lock taken around the whole of speak().
CreateTempLocked(p) ==
    /\ pc[p] = "speak"
    /\ holders = {}
    /\ holders' = holders \cup {p}
    /\ temp' = [temp EXCEPT ![p] = "empty"]
    /\ pc' = [pc EXCEPT ![p] = "synth"]
    /\ UNCHANGED <<file, linked, cmd, agent_id, session, voice, err, plays>>

\* with tempfile.NamedTemporaryFile(suffix=".mp3", delete=False): the file is
\* created empty under a name no other invocation has.
CreateTemp(p) ==
    /\ pc[p] = "speak"
    /\ temp' = [temp EXCEPT ![p] = "empty"]
    /\ pc' = [pc EXCEPT ![p] = "synth"]
    /\ UNCHANGED <<file, linked, holders, cmd, agent_id, session, voice, err, plays>>

\* AfterSynth with a failed synthesis tried again.
AfterSynthRetry(ok) == IF ok THEN "wait" ELSE "synth"

\* AfterSynth with the playback skipped.
AfterSynthSkip(ok) == "cleanup"

\* Where speak() goes after communicate.save(): on to the lock, or, the
\* exception propagating, to the finally clause.
AfterSynth(ok) == IF ok THEN "wait" ELSE "cleanup"

\* await communicate.save(temp_path): the backend delivers the audio or fails
\* (unknown voice, network failure, rate limit).
Synthesize(p, ok) ==
    /\ pc[p] = "synth"
    /\ temp' = [temp EXCEPT ![p] = IF ok THEN "audio" ELSE "empty"]
    /\ err' = [err EXCEPT ![p] = IF ok THEN "none" ELSE "SynthesisError"]
    /\ pc' = [pc EXCEPT ![p] = AfterSynth(ok)]
    /\ UNCHANGED <<file, linked, holders, cmd, agent_id, session, voice, plays>>

\* LockFree for a lock that does not exclude (a lock file of the process's own).
LockFreeAlways(h) == TRUE

\* FileLock(SPEECH_LOCK_FILE, timeout=-1): acquire() returns only when no
\* process holds the lock on the file.
LockFree(h) == h = {}

\* with lock: (entry) the process waits until the lock is free and takes it.
Acquire(p) ==
    /\ pc[p] = "wait"
    /\ LockFree(holders)
    /\ holders' = holders \cup {p}
    /\ pc' = [pc EXCEPT ![p] = "locked"]
    /\ UNCHANGED <<file, linked, cmd, agent_id, session, voice, temp, err, plays>>

\* subprocess.run(["ffplay", ..., temp_path], check=True) is called: ffplay
\* starts, or is not on the PATH (FileNotFoundError).
PlayStart(p, found) ==
    /\ pc[p] = "locked"
    /\ plays' = [plays EXCEPT ![p] = @ + 1]
    /\ err' = [err EXCEPT ![p] = IF found THEN "none" ELSE "FileNotFoundError"]
    /\ pc' = [pc EXCEPT ![p] = IF found THEN "playing" ELSE "release"]
    /\ UNCHANGED <<file, linked, holders, cmd, agent_id, session, voice, temp>>

\* ffplay exits: status 0, or non-zero (CalledProcessError).
PlayEnd(p, ok) ==
    /\ pc[p] = "playing"
    /\ err' = [err EXCEPT ![p] = IF ok THEN "none" ELSE "CalledProcessError"]
    /\ pc' = [pc EXCEPT ![p] = "release"]
    /\ UNCHANGED <<file, linked, holders, cmd, agent_id, session, voice, temp, plays>>

\* lock_exit for a lock acquired without the with statement: never released.
lock_exit_kept(h, p) == h

\* The holders of the lock after p leaves the with block.
lock_exit(h, p) == h \ {p}

\* with lock: (exit) the lock is released, exception or not.
Release(p) ==
    /\ pc[p] = "release"
    /\ holders' = lock_exit(holders, p)
    /\ pc' = [pc EXCEPT ![p] = "cleanup"]
    /\ UNCHANGED <<file, linked, cmd, agent_id, session, voice, temp, err, plays>>

\* Unlinked for a removal placed after the try block instead of in finally.
UnlinkedOnSuccess(t, e) == IF e = "none" THEN "none" ELSE t

\* finally: if os.path.exists(temp_path): os.unlink(temp_path); t is the
\* file's state, e the pending exception, which the finally clause ignores.
Unlinked(t, e) == "none"

\* The finally clause of speak(), then its return or the pending exception.
Cleanup(p) ==
    /\ pc[p] = "cleanup"
    /\ temp' = [temp EXCEPT ![p] = Unlinked(temp[p], err[p])]
    /\ pc' = [pc EXCEPT ![p] = IF err[p] = "none" THEN "done" ELSE "failed"]
    /\ UNCHANGED <<file, linked, holders, cmd, agent_id, session, voice, err, plays>>

\* ------------------------------------------------------------ specification
\* The resolver and the reset: the steps that read or write the session file.
SessionNext(p) ==
    \/ StartReset(p)
    \/ \E a \in Agents : StartAgent(p, a)
    \/ get_voice_for_agent(p)
    \/ SaveOpen(p)
    \/ SaveWrite(p)
    \/ ResetExists(p)
    \/ ResetUnlink(p)

\* speak(): the steps that touch the temp file and the speech lock.
SpeakNext(p) ==
    \/ \E v \in {DEFAULT_VOICE, CustomVoice} : StartVoice(p, v)
    \/ CreateTemp(p)
    \/ \E ok \in BOOLEAN : Synthesize(p, ok)
    \/ Acquire(p)
    \/ \E found \in BOOLEAN : PlayStart(p, found)
    \/ \E ok \in BOOLEAN : PlayEnd(p, ok)
    \/ Release(p)
    \/ Cleanup(p)

Next == \E p \in Procs : SessionNext(p) \/ SpeakNext(p)

\* The whole tool.
Spec == Init /\ [][Next]_vars

\* Invocations as far as the return of get_voice_for_agent or reset_session.
\* speak() neither reads nor writes the session file, so every behaviour of
\* Spec, restricted to the session file and the resolver's variables, is one
\* of SpecSession.
SpecSession == Init /\ [][\E p \in Procs : SessionNext(p)]_vars

\* Invocations with an explicit voice: speak() alone.
SpecSpeak == Init /\ [][\E p \in Procs : SpeakNext(p)]_vars

\* Resolves and resets run one after the other: a process takes a step only
\* while no other process is inside get_voice_for_agent or reset_session.
InSession(p) == pc[p] \in {"resolve", "save_open", "save_write", "reset", "unlink"}

\* No other process is inside get_voice_for_agent or reset_session.
Alone(p) == \A q \in Procs \ {p} : ~InSession(q)

SeqNext ==
    \E p \in Procs :
        \/ Alone(p) /\ StartReset(p)
        \/ \E a \in Agents : Alone(p) /\ StartAgent(p, a)
        \/ Alone(p) /\ get_voice_for_agent(p)
        \/ Alone(p) /\ SaveOpen(p)
        \/ Alone(p) /\ SaveWrite(p)
        \/ Alone(p) /\ ResetExists(p)
        \/ Alone(p) /\ ResetUnlink(p)

SpecSeq == Init /\ [][SeqNext]_vars

\* Any content of the session file, put there by whoever can write to the
\* temp directory.
AnyFile ==
    {Absent, Empty, Garbage, Undecodable, Unreadable, NoFields}
        \cup {Earlier(k) : k \in 1..NumVoices}

InitAnyFile ==
    /\ file \in AnyFile
    /\ linked = [p \in Procs |-> FALSE]
    /\ holders = {}
    /\ cmd = [p \in Procs |-> "none"]
    /\ agent_id = [p \in Procs |-> 0]
    /\ pc = [p \in Procs |-> "idle"]
    /\ session = [p \in Procs |-> NoSession]
    /\ voice = [p \in Procs |-> NoVoice]
    /\ temp = [p \in Procs |-> "none"]
    /\ err = [p \in Procs |-> "none"]
    /\ plays = [p \in Procs |-> 0]

SpecAnyFile == InitAnyFile /\ [][\E p \in Procs : SessionNext(p)]_vars

\* ------------------------------------------------------------------ claims
Terminated(p) == pc[p] \in {"done", "failed"}

\* The invocation ran speak() and its synthesis succeeded.
Spoke(p) == cmd[p] \in {"voice", "agent"} /\ Terminated(p)
              /\ err[p] \in {"none", "FileNotFoundError", "CalledProcessError"}

\* C1: at every instant at most one process holds the speech lock and at most
\* one process has ffplay running.
C1_MutualExclusion ==
    /\ Cardinality(holders) <= 1
    /\ Cardinality({p \in Procs : pc[p] = "playing"}) <= 1

\* One process plays while another waits for the lock.
C1_Witness == \E p, q \in Procs : pc[p] = "playing" /\ pc[q] = "wait"

\* C2: an invocation never calls the playback executable twice, and one whose
\* synthesis succeeded has called it exactly once when it ends; so N such
\* invocations make N calls.
C2_PlayedExactlyOnce ==
    \A p \in Procs :
        /\ plays[p] <= 1
        /\ Spoke(p) => plays[p] = 1

\* All the concurrent invocations have ended, each after one playback.
C2_Witness == \A p \in Procs : pc[p] = "done" /\ plays[p] = 1

\* C3: a process that has left the playback step (it is in the finally clause,
\* has returned or has failed) does not hold the speech lock.
C3_LockReleased ==
    \A p \in Procs : pc[p] \in {"cleanup", "done", "failed"} => p \notin holders

\* After one process's playback failed, another process holds the lock.
C3_Witness ==
    \E p, q \in Procs :
        /\ pc[p] = "failed"
        /\ err[p] \in {"FileNotFoundError", "CalledProcessError"}
        /\ q \in holders

\* C4: once speak() has returned or raised, the invocation's temp file does
\* not exist.
C4_TempDeleted == \A p \in Procs : Terminated(p) => temp[p] = "none"

\* One invocation ended by a synthesis failure, another by a playback failure.
C4_Witness ==
    \E p, q \in Procs :
        /\ pc[p] = "failed" /\ err[p] = "SynthesisError" /\ plays[p] = 0
        /\ pc[q] = "failed" /\ err[q] = "CalledProcessError" /\ plays[q] = 1

\* get_voice_for_agent has returned to p's main().
Resolved(p) ==
    /\ cmd[p] = "agent"
    /\ voice[p] # NoVoice
    /\ pc[p] \notin {"save_open", "save_write"}

\* p has chosen a voice for a new agent and is about to save the session.
Chose(p) == pc[p] = "save_open"

\* The used_voices p loaded: those of its local dict less the appended one.
LoadedUsed(p) == SubSeq(session[p].used_voices, 1, Len(session[p].used_voices) - 1)

\* Every pool voice was in the used_voices p loaded.
Exhausted(p) == VOICE_POOL \subseteq Range(LoadedUsed(p))

Injective(f) == \A a, b \in DOMAIN f : f[a] = f[b] => a = b

\* C5: with no reset among the invocations, any two calls of
\* get_voice_for_agent for the same agent id return the same voice.
C5_SameAgentSameVoice ==
    (\A p \in Procs : cmd[p] # "reset") =>
        \A p, q \in Procs :
            (Resolved(p) /\ Resolved(q) /\ agent_id[p] = agent_id[q])
                => voice[p] = voice[q]

\* C6: a voice chosen for a new agent while some pool voice is unused is a pool
\* voice that was not in used_voices; and when the resolves run one after the
\* other (with no reset), each resolved agent is recorded with the voice it was
\* given, and as long as no more agents than pool voices are recorded, the
\* agents have pairwise distinct voices and used_voices lists them once each.
C6_FreshVoice ==
    /\ \A p \in Procs :
          (Chose(p) /\ ~Exhausted(p)) =>
              voice[p] \in VOICE_POOL \ Range(LoadedUsed(p))
    /\ (file.kind = "session" /\ Len(file.used_voices) <= NumVoices) =>
          /\ Injective(file.agents)
          /\ Injective(file.used_voices)
          /\ Len(file.used_voices) = Cardinality(DOMAIN file.agents)
          /\ Range(file.used_voices) = {file.agents[a] : a \in DOMAIN file.agents}
    /\ ((\A q \in Procs : ~InSession(q) /\ cmd[q] # "reset") =>
          \A p \in Procs : Resolved(p) =>
              /\ file.kind = "session"
              /\ agent_id[p] \in DOMAIN file.agents
              /\ file.agents[agent_id[p]] = voice[p])

\* Starting from no session file, every invocation resolved a new agent, and
\* the agents got distinct voices.
C6_Witness ==
    /\ \A p \in Procs : Resolved(p) /\ pc[p] = "speak"
    /\ file.kind = "session"
    /\ DOMAIN file.agents = {agent_id[p] : p \in Procs}
    /\ Cardinality({agent_id[p] : p \in Procs}) = NumProcs
    /\ Cardinality({voice[p] : p \in Procs}) = NumProcs

\* C7: with every pool voice already used, a resolve for a new agent does not
\* fail (random.choice is never given an empty list): it picks a pool voice
\* and records it for the agent.
C7_ReuseOnExhaustion ==
    \A p \in Procs :
        /\ err[p] # "IndexError"
        /\ (Chose(p) /\ Exhausted(p)) =>
              /\ voice[p] \in VOICE_POOL
              /\ agent_id[p] \in DOMAIN session[p].agents
              /\ session[p].agents[agent_id[p]] = voice[p]

\* A new agent was given a voice after the pool was exhausted.
C7_Witness == \E p \in Procs : Chose(p) /\ Exhausted(p)

\* C8 as stated: resolving a new agent on an exhausted pool leaves the length
\* of used_voices at the pool size.
C8_UsedLengthStays ==
    \A p \in Procs :
        (Chose(p) /\ file.kind = "session" /\ Len(file.used_voices) = NumVoices
            /\ VOICE_POOL \subseteq Range(file.used_voices))
            => Len(session[p].used_voices) = NumVoices

\* C8 amended: resolving a new agent on an exhausted pool (used_voices holds
\* every pool voice, its length the pool size) picks a voice already in
\* used_voices and appends it again: the length grows to the pool size plus
\* one, the set of listed voices stays the pool, and agents gains the entry
\* for the new agent and is otherwise unchanged.
C8_UsedGrowsByOne ==
    \A p \in Procs :
        (Chose(p) /\ file.kind = "session" /\ Len(file.used_voices) = NumVoices
            /\ VOICE_POOL \subseteq Range(file.used_voices))
            => /\ voice[p] \in Range(file.used_voices)
               /\ session[p].used_voices = Append(file.used_voices, voice[p])
               /\ Len(session[p].used_voices) = NumVoices + 1
               /\ Range(session[p].used_voices) = VOICE_POOL
               /\ agent_id[p] \notin DOMAIN file.agents
               /\ DOMAIN session[p].agents = DOMAIN file.agents \cup {agent_id[p]}
               /\ \A a \in DOMAIN file.agents : session[p].agents[a] = file.agents[a]

\* A new agent is resolved on a session whose used_voices is exactly the pool.
C8_Witness ==
    \E p \in Procs :
        /\ Chose(p)
        /\ file.kind = "session"
        /\ Len(file.used_voices) = NumVoices
        /\ VOICE_POOL \subseteq Range(file.used_voices)

\* C9: load_session never raises: whenever a process is about to call it, the
\* call gives the fresh state for an absent, unreadable or malformed file and
\* the persisted state otherwise; and no invocation has ended by its exception.
C9_LoadNeverFails ==
    /\ \A p \in Procs : err[p] # "UnicodeDecodeError"
    /\ (\E p \in Procs : pc[p] = "resolve") =>
          /\ ~load_session(file).raised
          /\ file.kind \in {"absent", "unreadable", "undecodable", "empty", "garbage"}
                => load_session(file).session = FreshSession
          /\ file.kind \in {"session", "nofields"}
                => load_session(file).session = file

\* C10: a process about to call load_session never finds the session file
\* empty or partly written: the file is absent or holds a complete session.
C10_SaveAtomic ==
    \A p \in Procs : pc[p] = "resolve" => file.kind \in {"absent", "session"}

\* Resolves begin only before any reset: once an invocation has taken the
\* --reset-session branch, no further get_voice_for_agent is started.
ResetLastNext ==
    \E p \in Procs :
        \/ StartReset(p)
        \/ \E a \in Agents : (\A q \in Procs : cmd[q] # "reset") /\ StartAgent(p, a)
        \/ get_voice_for_agent(p)
        \/ SaveOpen(p)
        \/ SaveWrite(p)
        \/ ResetExists(p)
        \/ ResetUnlink(p)

SpecResetLast == Init /\ [][ResetLastNext]_vars

\* C11: once a reset_session has completed, with no resolve begun after it, a
\* load_session gives the fresh empty state, whatever the resolves begun
\* before the reset do.
C11_ResetClears ==
    (\E p \in Procs : cmd[p] = "reset" /\ pc[p] = "done") =>
        /\ ~load_session(file).raised
        /\ load_session(file).session = FreshSession
\* Explicit-voice invocations run whole, beside resolves and resets taken as
\* far as the return of get_voice_for_agent or reset_session.
ExplicitNext ==
    \E p \in Procs :
        \/ SessionNext(p)
        \/ \E v \in {DEFAULT_VOICE, CustomVoice} : StartVoice(p, v)
        \/ cmd[p] = "voice" /\ CreateTemp(p)
        \/ \E ok \in BOOLEAN : cmd[p] = "voice" /\ Synthesize(p, ok)
        \/ cmd[p] = "voice" /\ Acquire(p)
        \/ \E found \in BOOLEAN : cmd[p] = "voice" /\ PlayStart(p, found)
        \/ \E ok \in BOOLEAN : cmd[p] = "voice" /\ PlayEnd(p, ok)
        \/ cmd[p] = "voice" /\ Release(p)
        \/ cmd[p] = "voice" /\ Cleanup(p)

SpecExplicit == Init /\ [][ExplicitNext]_vars
\* C12: an invocation with an explicit voice keeps that voice, pool voice or
\* not, from main() to the end of speak(), never resolves an agent, and none of
\* its steps changes the session file.
C12_ExplicitVoiceFrame ==
    [][\A p \in Procs :
        /\ (cmd'[p] = "voice" /\ pc'[p] # pc[p]) => file' = file
        /\ cmd[p] = "voice" =>
              /\ voice'[p] = voice[p]
              /\ agent_id'[p] = agent_id[p]
              /\ session'[p] = NoSession
        /\ (cmd[p] = "none" /\ cmd'[p] = "voice") =>
              /\ voice'[p] \in {DEFAULT_VOICE, CustomVoice}
              /\ pc'[p] = "speak"]_vars

\* A voice outside the pool was given and synthesized, while another
\* invocation resolved an agent and saved the session.
C12_Witness ==
    \E p, q \in Procs :
        /\ cmd[p] = "voice" /\ voice[p] = CustomVoice /\ pc[p] = "wait"
        /\ Resolved(q) /\ pc[q] = "speak"
        /\ file.kind = "session" /\ agent_id[q] \in DOMAIN file.agents

\* C13: every voice id among the values of agents or in used_voices, in the
\* session file and in every process's local dict, is a voice id of VOICE_POOL.
C13_VoicesInPool ==
    /\ {file.agents[a] : a \in DOMAIN file.agents} \subseteq VOICE_POOL
    /\ Range(file.used_voices) \subseteq VOICE_POOL
    /\ \A p \in Procs :
          /\ {session[p].agents[a] : a \in DOMAIN session[p].agents} \subseteq VOICE_POOL
          /\ Range(session[p].used_voices) \subseteq VOICE_POOL

\* Beside an invocation with an explicit voice outside the pool, a resolve
\* has saved a session that lists more voices than the pool holds.
C13_Witness ==
    \E p, q \in Procs :
        /\ cmd[p] = "voice" /\ voice[p] = CustomVoice /\ pc[p] = "synth"
        /\ Resolved(q)
        /\ file.kind = "session" /\ Len(file.used_voices) > NumVoices
\* C14: get_voice_for_agent has no error outcome of its own: whatever the
\* session file holds (absent, not JSON, or JSON without the agents and
\* used_voices fields), no invocation ends by an exception raised in
\* get_voice_for_agent, and the voice it returns is a pool voice.  (The
\* decoding error raised inside load_session is C9's.)
C14_NoErrorOutcome ==
    \A p \in Procs :
        /\ err[p] \notin {"KeyError", "IndexError"}
        /\ Resolved(p) => voice[p] \in VOICE_POOL
\* C15: a failed synthesis is final: from the step in which it fails, the
\* invocation is in the finally clause or has failed, keeps the synthesis
\* error (it never synthesizes again), does not hold the speech lock and has
\* never called the playback executable.
C15_SynthesisFailureFatal ==
    [][\A p \in Procs :
        /\ err[p] = "SynthesisError" => err'[p] = "SynthesisError"
        /\ err'[p] = "SynthesisError" =>
              /\ pc'[p] \in {"cleanup", "failed"}
              /\ p \notin holders'
              /\ plays'[p] = 0]_vars

\* One invocation has failed in synthesis while another is playing.
C15_Witness ==
    \E p, q \in Procs :
        /\ pc[p] = "failed" /\ err[p] = "SynthesisError"
        /\ plays[p] = 0 /\ temp[p] = "none"
        /\ pc[q] = "playing" /\ holders = {q}
\* ---------------------------------------------------------------------
\* Fixed-assignment (prefix-match) policy of the voice resolver.  Strings
\* are sequences of one-character strings.

Letters == <<"a", "e", "h", "i", "k", "m", "n", "o", "p", "r", "s", "t", "u", "x">>
Capitals == <<"A", "E", "H", "I", "K", "M", "N", "O", "P", "R", "S", "T", "U", "X">>

\* str.lower(): capitals become letters, every other character stays.
lower_char(c) ==
    IF \E i \in 1..Len(Capitals) : Capitals[i] = c
    THEN Letters[CHOOSE i \in 1..Len(Capitals) : Capitals[i] = c]
    ELSE c
lower(s) == [i \in 1..Len(s) |-> lower_char(s[i])]

startswith(s, pre) == Len(s) >= Len(pre) /\ SubSeq(s, 1, Len(pre)) = pre

Sonnet == <<"s", "o", "n", "n", "e", "t">>
Haiku == <<"h", "a", "i", "k", "u">>
Opus == <<"o", "p", "u", "s">>

\* The fixed-prefix table, in table order, and the default voice.
modelVoices ==
    << [prefix |-> Sonnet, voice |-> "V1"],
       [prefix |-> Haiku, voice |-> "V2"],
       [prefix |-> Opus, voice |-> "V3"] >>
defaultVoice == "V0"

\* Matches with the separator forgotten: any id that starts with the prefix.
MatchesNoSeparator(id, prefix) == startswith(id, prefix)

\* agentId == prefix or agentId starts with prefix + "-".
Matches(id, prefix) == id = prefix \/ startswith(id, prefix \o <<"-">>)

\* Lowercase the agent id; the first matching row of the table wins; no
\* match gives the default voice.
resolve_fixed(agentId) ==
    LET id == lower(agentId)
        hits == {i \in 1..Len(modelVoices) : Matches(id, modelVoices[i].prefix)}
    IN  IF hits = {} THEN defaultVoice
        ELSE modelVoices[CHOOSE i \in hits : \A j \in hits : i <= j].voice

\* Agent ids the resolver is applied to: a stem followed by a tail.
Stems == { Opus, <<"O", "p", "u", "s">>, <<"O", "P", "U", "S">>, Sonnet,
           <<"H", "a", "i", "k", "u">>, <<>> }
Tails == { <<>>, <<"-">>, <<"-", "m", "a", "i", "n">>, <<"e", "x", "t", "r", "a">>,
           <<"-", "e", "x", "p", "l", "o", "r", "e">>, <<"s">> }
AgentIds == { st \o tl : st \in Stems, tl \in Tails }

\* Every invocation is about to resolve some agent id under the fixed policy.
InitFixed ==
    /\ file = Absent
    /\ linked = [p \in Procs |-> FALSE]
    /\ holders = {}
    /\ cmd = [p \in Procs |-> "fixed"]
    /\ agent_id \in [Procs -> AgentIds]
    /\ pc = [p \in Procs |-> "resolve_fixed"]
    /\ session = [p \in Procs |-> NoSession]
    /\ voice = [p \in Procs |-> NoVoice]
    /\ temp = [p \in Procs |-> "none"]
    /\ err = [p \in Procs |-> "none"]
    /\ plays = [p \in Procs |-> 0]

ResolveFixed(p) ==
    /\ cmd[p] = "fixed"
    /\ pc[p] = "resolve_fixed"
    /\ voice' = [voice EXCEPT ![p] = resolve_fixed(agent_id[p])]
    /\ pc' = [pc EXCEPT ![p] = "resolved"]
    /\ UNCHANGED <<file, linked, holders, cmd, agent_id, session, temp, err, plays>>

FixedNext == \E p \in Procs : ResolveFixed(p)
SpecFixed == InitFixed /\ [][FixedNext]_vars

\* The characters of pre are the first characters of id.
HasPrefix(id, pre) ==
    Len(id) >= Len(pre) /\ \A i \in 1..Len(pre) : id[i] = pre[i]

\* The id is the model name, or the model name followed by a hyphen.
NamesModel(id, pre) ==
    HasPrefix(id, pre) /\ (Len(id) = Len(pre) \/ id[Len(pre) + 1] = "-")

\* C16: under the prefix-match policy an agent id resolves to a model's
\* voice exactly when, lowercased, it is the model's prefix or the prefix
\* followed by "-", and to the default voice otherwise: "opus-main", "opus"
\* and "OPUS-main" give the opus voice, "sonnet-explore" the sonnet voice,
\* "opusextra" and "opuss" the default voice.
C16_PrefixMatch ==
    \A p \in Procs :
        (cmd[p] = "fixed" /\ pc[p] = "resolved") =>
            LET id == lower(agent_id[p]) IN
            /\ \A i \in 1..Len(modelVoices) :
                  voice[p] = modelVoices[i].voice <=> NamesModel(id, modelVoices[i].prefix)
            /\ voice[p] = defaultVoice <=>
                  \A i \in 1..Len(modelVoices) : ~NamesModel(id, modelVoices[i].prefix)
            /\ agent_id[p] \in {Opus, Opus \o <<"-", "m", "a", "i", "n">>,
                                <<"O", "P", "U", "S", "-", "m", "a", "i", "n">>}
                  => voice[p] = "V3"
            /\ agent_id[p] = Sonnet \o <<"-", "e", "x", "p", "l", "o", "r", "e">>
                  => voice[p] = "V1"
            /\ agent_id[p] \in {Opus \o <<"e", "x", "t", "r", "a">>, Opus \o <<"s">>}
                  => voice[p] = "V0"

\* "opusextra" resolved to the default voice and "Opus-main" to the opus voice.
C16_Witness ==
    \E p, q \in Procs :
        /\ cmd[p] = "fixed" /\ pc[p] = "resolved"
        /\ agent_id[p] = Opus \o <<"e", "x", "t", "r", "a">> /\ voice[p] = defaultVoice
        /\ cmd[q] = "fixed" /\ pc[q] = "resolved"
        /\ agent_id[q] = <<"O", "p", "u", "s", "-", "m", "a", "i", "n">> /\ voice[q] = "V3"
\* C17: the speech lock is held exactly around the playback step: a process
\* holds it only between entering the FileLock block and leaving it, never
\* while it resolves a voice, creates its temp file, synthesizes or waits, so
\* other processes synthesize while one plays.
C17_LockOnlyWhilePlaying ==
    \A p \in Procs :
        /\ p \in holders => pc[p] \in {"locked", "playing", "release"}
        /\ pc[p] \in {"locked", "playing"} => p \in holders

\* One process plays while another synthesizes.
C17_Witness ==
    \E p, q \in Procs :
        /\ pc[p] = "playing" /\ holders = {p}
        /\ pc[q] = "synth" /\ temp[q] = "empty"
\* p has chosen a voice for a new agent and has not finished saving.
Saving(p) == pc[p] \in {"save_open", "save_write"}

\* C18: the resolver's load, choice and save are not one step, and the race
\* the claim describes is reachable (C18_Witness).  What the code does
\* guarantee bounds the race: in the state a process is about to persist its
\* new agent shares its voice with no other agent unless the pool was
\* exhausted when it loaded, so a duplicate arises only across the states of
\* two processes; and when all invocations were resolves and have returned
\* with the file holding a session, at least one of them finds its agent
\* recorded with the voice it was given, so the others' updates are what is lost.
C18_RaceIsAcrossProcesses ==
    /\ \A p \in Procs :
          (Saving(p) /\ ~Exhausted(p)) =>
              \A a \in DOMAIN session[p].agents :
                  session[p].agents[a] = voice[p] => a = agent_id[p]
    /\ ((\A p \in Procs : Resolved(p)) /\ file.kind = "session") =>
          \E p \in Procs :
              /\ agent_id[p] \in DOMAIN file.agents
              /\ file.agents[agent_id[p]] = voice[p]

\* Two first-time resolves of distinct agents have returned the same voice
\* although a pool voice is still unused, and the persisted state has lost
\* one of the two agents.
C18_Witness ==
    \E p, q \in Procs :
        /\ Resolved(p) /\ Resolved(q) /\ pc[p] = "speak" /\ pc[q] = "speak"
        /\ agent_id[p] # agent_id[q]
        /\ voice[p] = voice[q]
        /\ file.kind = "session"
        /\ Range(file.used_voices) # VOICE_POOL
        /\ agent_id[p] \notin DOMAIN file.agents
        /\ agent_id[q] \in DOMAIN file.agents
\* C19: a call of get_voice_for_agent that finds its agent in the session it
\* loads returns the recorded voice at once: the step leaves the session file
\* and every process's open handle as they are, keeps no copy of the session
\* to save, and the process is past the resolver, so it never opens the file
\* for writing.
C19_KnownAgentNoWrite ==
    [][\A p \in Procs :
        LET r == load_session(file) IN
        (/\ pc[p] = "resolve" /\ pc'[p] # "resolve"
         /\ ~r.raised /\ r.session.kind = "session"
         /\ agent_id[p] \in DOMAIN r.session.agents)
            => /\ pc'[p] = "speak"
               /\ voice'[p] = r.session.agents[agent_id[p]]
               /\ file' = file
               /\ linked' = linked
               /\ session'[p] = NoSession]_vars

\* A process was given its agent's recorded voice from a session that records
\* a full pool of agents, while another process, which has chosen a voice for
\* a new agent, is about to save.
C19_Witness ==
    \E p, q \in Procs :
        /\ Resolved(p) /\ pc[p] = "speak" /\ agent_id[p] = 1
        /\ file.kind = "session"
        /\ DOMAIN file.agents = 1..NumVoices
        /\ file.agents[1] = voice[p]
        /\ Chose(q) /\ agent_id[q] = NumVoices + 1
\* A step of speak() other than waiting for the lock: each ends by itself
\* (the synthesis and the playback terminate).
SpeakStep(p) ==
    \/ CreateTemp(p)
    \/ \E ok \in BOOLEAN : Synthesize(p, ok)
    \/ \E found \in BOOLEAN : PlayStart(p, found)
    \/ \E ok \in BOOLEAN : PlayEnd(p, ok)
    \/ Release(p)
    \/ Cleanup(p)

\* speak() with every step terminating and the lock granted fairly: a
\* process that finds the lock free again and again gets it.  speak() does
\* not read the session file, so the runs start with none.
InitSpeak == Init /\ file = Absent

SpecSpeakFair ==
    /\ InitSpeak
    /\ [][\E p \in Procs : SpeakNext(p)]_vars
    /\ \A p \in Procs : WF_vars(SpeakStep(p)) /\ SF_vars(Acquire(p))

\* C20: every started invocation of speak() ends, returning or failing;
\* when all have ended the lock is free and no temp file remains; and
\* whenever a process waits for the lock that nobody holds, a waiting
\* process can take it.
C20_EveryInvocationEnds ==
    /\ \A p \in Procs : (pc[p] # "idle") ~> Terminated(p)
    /\ []((\A p \in Procs : Terminated(p)) =>
            (holders = {} /\ \A p \in Procs : temp[p] = "none"))
    /\ [](((\E p \in Procs : pc[p] = "wait") /\ holders = {}) =>
            \E p \in Procs : pc[p] = "wait" /\ ENABLED Acquire(p))

\* All invocations have ended, one having played and returned and one having
\* failed to start the player, with the lock free and no temp file left.
C20_Witness ==
    /\ \A p \in Procs : Terminated(p)
    /\ \E p, q \in Procs :
          /\ pc[p] = "done" /\ plays[p] = 1
          /\ pc[q] = "failed" /\ err[q] = "FileNotFoundError"
    /\ holders = {}
    /\ \A p \in Procs : temp[p] = "none"
====
